---------------------------- MODULE Spec2Model ----------------------------
(***************************************************************************)
(* A model of the PECO outage client (src/src/peco/__init__.py,            *)
(* src/src/peco/const.py): the two transport primitives get_request and    *)
(* post_request, and the four pipelines get_outage_count,                  *)
(* get_outage_totals, meter_check and get_map_alerts.                      *)
(*                                                                         *)
(* A coroutine runs from one await to the next in one step: a Call action  *)
(* validates the arguments and issues the first request, and an On...      *)
(* action receives the response of the request in flight, runs the code up *)
(* to the next request or to the return / raise.  The server's responses   *)
(* are the inputs, drawn from small sets of JSON documents.                *)
(***************************************************************************)
EXTENDS Integers, Sequences, FiniteSets, TLC

VARIABLES
    pc,              \* per invocation: where the coroutine is suspended
    op,              \* per invocation: the operation called
    county,          \* get_outage_count's argument
    phone_number,    \* meter_check's argument, a sequence of characters
    websession,      \* TRUE when the caller supplied a session
    requests,        \* per invocation: the requests issued, in order
    responses,       \* per invocation: the responses received, in order
    auid,            \* meter_check's local, from the query response
    acc_number,      \* meter_check's local, from the query response
    outcome,         \* per invocation: what the call returned or raised
    sessionOpen,     \* per invocation: library-created sessions now open
    sessionsCreated, \* per invocation: sessions the library created so far
    callerSessionClosed  \* TRUE once the caller's session has been closed

vars == <<pc, op, county, phone_number, websession, requests, responses,
          auid, acc_number, outcome, sessionOpen, sessionsCreated,
          callerSessionClosed>>

Procs == {1, 2}

(***************************************************************************)
(* Constants of const.py.                                                  *)
(***************************************************************************)
COUNTY_LIST == <<"BUCKS", "CHESTER", "DELAWARE", "MONTGOMERY", "PHILADELPHIA", "YORK">>

STATUS_OK == 200

PHONE_NUMBER_LENGTH == 10

(***************************************************************************)
(* Bounds of the model.                                                    *)
(***************************************************************************)
MaxAreas == 2

MaxPieces == 3

(***************************************************************************)
(* JSON values as Python sees them after r.json(): a tag and a value.      *)
(* "str" carries a TLA+ string (names, identifiers), "text" a sequence of  *)
(* one-character strings (alert contents, phone numbers); both are Python  *)
(* str.                                                                    *)
(***************************************************************************)
JNull == [t |-> "null", v |-> 0]

JBool(b) == [t |-> "bool", v |-> b]

JInt(n) == [t |-> "int", v |-> n]

JStr(s) == [t |-> "str", v |-> s]

JText(cs) == [t |-> "text", v |-> cs]

JList(xs) == [t |-> "list", v |-> xs]

JObj(f) == [t |-> "obj", v |-> f]

EmptyObj == JObj(<<>>)

(***************************************************************************)
(* The result of evaluating a Python expression: a value, or the class of  *)
(* the exception raised.                                                   *)
(***************************************************************************)
Ok(x) == [ok |-> TRUE, val |-> x, err |-> ""]

Raise(e) == [ok |-> FALSE, val |-> JNull, err |-> e]

\* x[key] for a string key: dict lookup; every other JSON type refuses a
\* string subscript with TypeError.
Item(x, key) ==
    IF x.t = "obj"
    THEN IF key \in DOMAIN x.v THEN Ok(x.v[key]) ELSE Raise("KeyError")
    ELSE Raise("TypeError")

\* x[i] for an integer i >= 0: list indexing; a dict parsed from JSON has
\* only string keys, so an integer key is a KeyError.
Index(x, i) ==
    CASE x.t = "list" -> IF i < Len(x.v) THEN Ok(x.v[i + 1]) ELSE Raise("IndexError")
      [] x.t = "text" -> IF i < Len(x.v) THEN Ok(JText(<<x.v[i + 1]>>)) ELSE Raise("IndexError")
      [] x.t = "obj" -> Raise("KeyError")
      [] x.t \in {"null", "bool", "int"} -> Raise("TypeError")

K(s) == [kind |-> "key", key |-> s, idx |-> 0]

I(n) == [kind |-> "idx", key |-> "", idx |-> n]

Subscript(x, step) == IF step.kind = "key" THEN Item(x, step.key) ELSE Index(x, step.idx)

\* x[k1][k2]...: the first subscript that fails decides the exception.
RECURSIVE GetPath(_, _)
GetPath(x, path) ==
    IF path = <<>> THEN Ok(x)
    ELSE LET r == Subscript(x, Head(path))
         IN  IF r.ok THEN GetPath(r.val, Tail(path)) ELSE r

\* Python truth value, as tested by `not x` and bool(x).
Truthy(x) ==
    CASE x.t = "null" -> FALSE
      [] x.t = "bool" -> x.v
      [] x.t = "int" -> x.v # 0
      [] x.t = "str" -> x.v # ""
      [] x.t = "text" -> x.v # <<>>
      [] x.t = "list" -> x.v # <<>>
      [] x.t = "obj" -> DOMAIN x.v # {}

\* "{}".format(x) of the URL templates: str(x).
PyStr(x) ==
    CASE x.t = "str" -> x.v
      [] x.t = "null" -> "None"
      [] x.t = "int" -> ToString(x.v)
      [] x.t = "bool" -> IF x.v THEN "True" ELSE "False"

SeqToSet(s) == {s[i] : i \in DOMAIN s}

(***************************************************************************)
(* URLs: the template of const.py and the identifier formatted into it.    *)
(***************************************************************************)
API_URL == [endpoint |-> "API_URL", id |-> ""]

REPORT_URL(id) == [endpoint |-> "REPORT_URL", id |-> PyStr(id)]

ALERTS_URL(id) == [endpoint |-> "ALERTS_URL", id |-> PyStr(id)]

QUERY_URL == [endpoint |-> "QUERY_URL", id |-> ""]

PRECHECK_URL == [endpoint |-> "PRECHECK_URL", id |-> ""]

PING_URL == [endpoint |-> "PING_URL", id |-> ""]

(***************************************************************************)
(* Transport.  A response is a status, the Content-Type header and a body  *)
(* that is a JSON document, empty, or text that is not JSON.               *)
(***************************************************************************)
JsonBody(x) == [kind |-> "json", val |-> x]

EmptyBody == [kind |-> "empty", val |-> JNull]

GarbageBody == [kind |-> "garbage", val |-> JNull]

\* aiohttp's ClientResponse.json(content_type=...): the Content-Type is
\* checked first, an empty body is None, anything else goes to json.loads.
json(r, content_type) ==
    IF r.ctype # content_type THEN Raise("ContentTypeError")
    ELSE IF r.body.kind = "empty" THEN Ok(JNull)
    ELSE IF r.body.kind = "garbage" THEN Raise("JSONDecodeError")
    ELSE Ok(r.body.val)

\* get_request after the response has arrived: the body is parsed inside
\* the `async with`, the status is tested after it.
get_request(r) ==
    LET data == json(r, "application/json")
    IN  IF ~data.ok THEN data
        ELSE IF r.status # STATUS_OK THEN Raise("HttpError")
        ELSE data

\* post_request after the response has arrived.
post_request(r) ==
    LET data == json(r, "text/html")
    IN  IF ~data.ok THEN data
        ELSE IF r.status # STATUS_OK THEN Raise("HttpError")
        ELSE data

\* A variant of ExceptKeyError with the try/except left out.
ExceptKeyError_Propagates(r) == r

\* `try: v = <lookup> except KeyError: raise BadJSONError`: only KeyError is
\* translated, every other exception of the lookup propagates.
ExceptKeyError(r) == IF ~r.ok /\ r.err = "KeyError" THEN Raise("BadJSONError") ELSE r

\* Run F on the value of r, or propagate r's exception.
Try(r, F(_)) == IF r.ok THEN F(r.val) ELSE r

(***************************************************************************)
(* The exception classes of lines 244-280 and the built-in ones the code   *)
(* raises or lets through, each with its direct base class.                *)
(***************************************************************************)
BaseOf(e) ==
    CASE e = "InvalidCountyError" -> "ValueError"
      [] e = "IncompatibleMeterError" -> "MeterError"
      [] e = "UnresponsiveMeterError" -> "MeterError"
      [] e \in {"HttpError", "BadJSONError", "MeterError", "ValueError", "LookupError",
                "TypeError", "AttributeError", "ClientError"} -> "Exception"
      [] e \in {"KeyError", "IndexError"} -> "LookupError"
      [] e \in {"JSONDecodeError", "ValidationError"} -> "ValueError"
      [] e = "ContentTypeError" -> "ClientError"
      [] e \in {"CancelledError", "Exception"} -> "BaseException"
      [] OTHER -> ""

\* isinstance(e(), cls)
RECURSIVE IsInstance(_, _)
IsInstance(e, cls) ==
    IF e = cls THEN TRUE
    ELSE IF BaseOf(e) = "" THEN FALSE
    ELSE IsInstance(BaseOf(e), cls)

(***************************************************************************)
(* The result models (pydantic BaseModel): a field declared int takes an   *)
(* int (a bool is an int), a field declared str takes a str; None or a     *)
(* container is a ValidationError.                                         *)
(***************************************************************************)
NoValue == [t |-> "none", v |-> 0]

IntField(x) ==
    CASE x.t = "int" -> Ok(x.v)
      [] x.t = "bool" -> Ok(IF x.v THEN 1 ELSE 0)
      [] x.t \in {"null", "list", "obj"} -> Raise("ValidationError")

StrField(x) ==
    CASE x.t \in {"str", "text"} -> Ok(x.v)
      [] x.t \in {"null", "list", "obj"} -> Raise("ValidationError")

OutageResults(customers_out, percent_customers_out, outage_count, customers_served) ==
    LET a == IntField(customers_out)
        b == IntField(percent_customers_out)
        c == IntField(outage_count)
        d == IntField(customers_served)
    IN  IF a.ok /\ b.ok /\ c.ok /\ d.ok
        THEN Ok([t |-> "OutageResults",
                 v |-> [customers_out |-> a.val, percent_customers_out |-> b.val,
                        outage_count |-> c.val, customers_served |-> d.val]])
        ELSE Raise("ValidationError")

AlertResults(alert_content, alert_title) ==
    LET a == StrField(alert_content)
        b == StrField(alert_title)
    IN  IF a.ok /\ b.ok
        THEN Ok([t |-> "AlertResults",
                 v |-> [alert_content |-> a.val, alert_title |-> b.val]])
        ELSE Raise("ValidationError")

(***************************************************************************)
(* get_outage_count                                                        *)
(***************************************************************************)
\* A variant of get_outage_count_validate that only refuses the empty name.
get_outage_count_validate_NonEmpty(c) ==
    IF c = "" THEN Raise("InvalidCountyError") ELSE Ok(JNull)

\* Lines 78-79: the membership test on COUNTY_LIST.
get_outage_count_validate(c) ==
    IF c \notin SeqToSet(COUNTY_LIST) THEN Raise("InvalidCountyError") ELSE Ok(JNull)

\* Lines 81-88: from the current-state response to the report URL.
get_outage_count_state(r) ==
    Try(get_request(r), LAMBDA data :
      Try(ExceptKeyError(GetPath(data, <<K("data"), K("interval_generation_data")>>)),
          LAMBDA id_that_has_the_report : Ok(REPORT_URL(id_that_has_the_report))))

\* The elements `for area in areas` visits: those of a list, the keys of a
\* dict, the characters of a str; None, a number or a bool is not iterable.
RECURSIVE KeysInOrder(_)
KeysInOrder(S) ==
    IF S = {} THEN <<>>
    ELSE LET k == CHOOSE x \in S : TRUE IN <<JStr(k)>> \o KeysInOrder(S \ {k})

Iterate(x) ==
    CASE x.t = "list" -> Ok(x.v)
      [] x.t = "obj" -> Ok(KeysInOrder(DOMAIN x.v))
      [] x.t = "text" -> Ok([i \in DOMAIN x.v |-> JText(<<x.v[i]>>)])
      [] x.t \in {"null", "bool", "int"} -> Raise("TypeError")

Upper(s) == IF s = "bucks" THEN "BUCKS" ELSE s

\* A variant of NameIs that compares without regard to letter case.
NameIs_IgnoreCase(x, c) == x.t = "str" /\ Upper(x.v) = Upper(c)

\* area["name"] == county: a str equal to the county; no other type is.
NameIs(x, c) == x.t = "str" /\ x.v = c

\* Lines 104-113: the four lookups of a matching record, in order, then the
\* construction of the result.
AreaResult(area) ==
    Try(GetPath(area, <<K("cust_a"), K("val")>>), LAMBDA customers_out :
      Try(GetPath(area, <<K("percent_cust_a"), K("val")>>), LAMBDA percent_customers_out :
        Try(Item(area, "n_out"), LAMBDA outage_count :
          Try(Item(area, "cust_s"), LAMBDA customers_served :
            OutageResults(customers_out, percent_customers_out,
                          outage_count, customers_served)))))

\* A variant of ScanAreas that leaves the loop at the first match.
RECURSIVE ScanAreas_FirstMatch(_, _, _)
ScanAreas_FirstMatch(areas, c, outage_result) ==
    IF areas = <<>> THEN Ok(outage_result)
    ELSE LET area == Head(areas)
         IN  Try(Item(area, "name"), LAMBDA name :
               IF NameIs(name, c)
               THEN AreaResult(area)
               ELSE ScanAreas_FirstMatch(Tail(areas), c, outage_result))

\* Lines 102-113: the loop over the areas; it runs to the end of the list,
\* a later match overwrites an earlier one.
RECURSIVE ScanAreas(_, _, _)
ScanAreas(areas, c, outage_result) ==
    IF areas = <<>> THEN Ok(outage_result)
    ELSE LET area == Head(areas)
         IN  Try(Item(area, "name"), LAMBDA name :
               IF NameIs(name, c)
               THEN Try(AreaResult(area), LAMBDA res : ScanAreas(Tail(areas), c, res))
               ELSE ScanAreas(Tail(areas), c, outage_result))

\* Lines 96-101: the default result.
ZeroResult == OutageResults(JInt(0), JInt(0), JInt(0), JInt(0)).val

\* Lines 89-114: from the report response to the result.
get_outage_count_report(r, c) ==
    Try(get_request(r), LAMBDA data :
      Try(ExceptKeyError(GetPath(data, <<K("file_data"), K("areas")>>)), LAMBDA areas :
        Try(Iterate(areas), LAMBDA elems : ScanAreas(elems, c, ZeroResult))))

(***************************************************************************)
(* get_outage_totals                                                       *)
(***************************************************************************)
\* Lines 121-128.
get_outage_totals_state(r) ==
    Try(get_request(r), LAMBDA data :
      Try(ExceptKeyError(GetPath(data, <<K("data"), K("interval_generation_data")>>)),
          LAMBDA id_that_has_the_report : Ok(REPORT_URL(id_that_has_the_report))))

\* Lines 129-141.
get_outage_totals_report(r) ==
    Try(get_request(r), LAMBDA data :
      Try(ExceptKeyError(GetPath(data, <<K("file_data"), K("totals")>>)), LAMBDA totals :
        AreaResult(totals)))

(***************************************************************************)
(* meter_check                                                             *)
(***************************************************************************)
\* The characters str.isdigit accepts: the ASCII digits and the other
\* characters of Unicode Numeric_Type Digit or Decimal, of which the
\* superscript two and the Arabic-Indic three stand here.
AsciiDigits == {"0", "1", "2", "3", "4", "5", "6", "7", "8", "9"}

UnicodeDigits == {"sup2", "arabic3"}

\* str.isdigit: a non-empty string of digit characters.
isdigit(s) == s # <<>> /\ \A i \in DOMAIN s : s[i] \in AsciiDigits \cup UnicodeDigits

\* A variant of meter_check_validate without the isdigit test.
meter_check_validate_LengthOnly(phone) ==
    IF Len(phone) # PHONE_NUMBER_LENGTH THEN Raise("ValueError") ELSE Ok(JNull)

\* Lines 149-155.
meter_check_validate(phone) ==
    IF Len(phone) # PHONE_NUMBER_LENGTH THEN Raise("ValueError")
    ELSE IF ~isdigit(phone) THEN Raise("ValueError")
    ELSE Ok(JNull)

\* Lines 157: the payload of the query request.
QueryPayload(phone) == JObj([phone |-> JText(phone)])

\* A variant of meter_check_query that does not read smartMeterStatus.
meter_check_query_NoMeterStatus(r) ==
    Try(post_request(r), LAMBDA data1 :
      Try(Item(data1, "success"), LAMBDA success :
        IF ~Truthy(success) THEN Raise("HttpError")
        ELSE Try(GetPath(data1, <<K("data"), I(0), K("auid")>>), LAMBDA a :
          Try(GetPath(data1, <<K("data"), I(0), K("accountNumber")>>), LAMBDA n :
            Ok([auid |-> a, acc_number |-> n])))))

\* A variant of meter_check_query that tests smartMeterStatus before success.
meter_check_query_StatusFirst(r) ==
    Try(post_request(r), LAMBDA data1 :
      Try(GetPath(data1, <<K("data"), I(0), K("smartMeterStatus")>>), LAMBDA smart :
        IF ~Truthy(smart) THEN Raise("IncompatibleMeterError")
        ELSE Try(Item(data1, "success"), LAMBDA success :
          IF ~Truthy(success) THEN Raise("HttpError")
          ELSE Try(GetPath(data1, <<K("data"), I(0), K("auid")>>), LAMBDA a :
            Try(GetPath(data1, <<K("data"), I(0), K("accountNumber")>>), LAMBDA n :
              Ok([auid |-> a, acc_number |-> n]))))))

\* Lines 157-166: from the query response to the correlation tokens.
meter_check_query(r) ==
    Try(post_request(r), LAMBDA data1 :
      Try(Item(data1, "success"), LAMBDA success :
        IF ~Truthy(success) THEN Raise("HttpError")
        ELSE Try(GetPath(data1, <<K("data"), I(0), K("smartMeterStatus")>>), LAMBDA smart :
          IF ~Truthy(smart) THEN Raise("IncompatibleMeterError")
          ELSE Try(GetPath(data1, <<K("data"), I(0), K("auid")>>), LAMBDA a :
            Try(GetPath(data1, <<K("data"), I(0), K("accountNumber")>>), LAMBDA n :
              Ok([auid |-> a, acc_number |-> n]))))))

\* Lines 168-176: the payload of the precheck request.
PrecheckPayload(a, n, phone) ==
    JObj([auid |-> a, accountNumber |-> n, phone |-> JText(phone)])

\* A variant of meter_check_precheck that does not read meterPing.
meter_check_precheck_NoMeterPing(r) ==
    Try(post_request(r), LAMBDA data2 :
      Try(Item(data2, "success"), LAMBDA success :
        IF ~Truthy(success) THEN Raise("HttpError") ELSE Ok(JNull)))

\* Lines 178-182.
meter_check_precheck(r) ==
    Try(post_request(r), LAMBDA data2 :
      Try(Item(data2, "success"), LAMBDA success :
        IF ~Truthy(success) THEN Raise("HttpError")
        ELSE Try(GetPath(data2, <<K("data"), K("meterPing")>>), LAMBDA ping :
          IF ~Truthy(ping) THEN Raise("UnresponsiveMeterError") ELSE Ok(JNull))))

\* Lines 184-188: the payload of the ping request.
\* A variant of PingPayload with the two tokens exchanged.
PingPayload_Exchanged(a, n) == JObj([auid |-> n, accountNumber |-> a])

PingPayload(a, n) == JObj([auid |-> a, accountNumber |-> n])

\* A variant of meter_check_ping that does not test "success".
meter_check_ping_NoSuccessTest(r) ==
    Try(post_request(r), LAMBDA data3 :
      Try(GetPath(data3, <<K("data"), K("meterInfo"), K("pingResult")>>),
          LAMBDA res : Ok(JBool(Truthy(res)))))

\* Lines 190-193.
meter_check_ping(r) ==
    Try(post_request(r), LAMBDA data3 :
      Try(Item(data3, "success"), LAMBDA success :
        IF ~Truthy(success) THEN Raise("HttpError")
        ELSE Try(GetPath(data3, <<K("data"), K("meterInfo"), K("pingResult")>>),
                 LAMBDA res : Ok(JBool(Truthy(res))))))

(***************************************************************************)
(* get_map_alerts                                                          *)
(***************************************************************************)
BR == <<"<", "b", "r", " ", "/", ">">>

\* str.replace("<br />", "\n\n"): the occurrences from left to right.
RECURSIVE ReplaceBr(_)
ReplaceBr(s) ==
    IF s = <<>> THEN <<>>
    ELSE IF Len(s) >= Len(BR) /\ SubSeq(s, 1, Len(BR)) = BR
         THEN <<"\n", "\n">> \o ReplaceBr(SubSeq(s, Len(BR) + 1, Len(s)))
         ELSE <<Head(s)>> \o ReplaceBr(Tail(s))

\* The end of the match of <[^>]+> that starts at s[1], or 0: a "<", one or
\* more characters other than ">", and the first ">" after them.
TagEnd(s) ==
    IF Len(s) >= 3 /\ s[1] = "<" /\ s[2] # ">" /\ \E j \in 3..Len(s) : s[j] = ">"
    THEN CHOOSE j \in 3..Len(s) : s[j] = ">" /\ \A k \in 3..(j - 1) : s[k] # ">"
    ELSE 0

\* TAG_RE.sub("", s): the leftmost matches, not overlapping, removed.
RECURSIVE TAG_RE_sub(_)
TAG_RE_sub(s) ==
    IF s = <<>> THEN <<>>
    ELSE IF TagEnd(s) # 0 THEN TAG_RE_sub(SubSeq(s, TagEnd(s) + 1, Len(s)))
         ELSE <<Head(s)>> \o TAG_RE_sub(Tail(s))

\* A variant of ParseContent that strips the tags before it replaces the
\* line breaks.
ParseContent_StripFirst(content) ==
    CASE content.t = "text" -> Ok(JText(ReplaceBr(TAG_RE_sub(content.v))))
      [] content.t \in {"null", "bool", "int", "list", "obj"} -> Raise("AttributeError")

\* alert["content"].replace(...): only a str has the method.
ParseContent(content) ==
    CASE content.t = "text" -> Ok(JText(TAG_RE_sub(ReplaceBr(content.v))))
      [] content.t \in {"null", "bool", "int", "list", "obj"} -> Raise("AttributeError")

\* Lines 209 and 219-222: the result for "no alert".
EmptyAlert == AlertResults(JText(<<>>), JStr(""))

\* A variant of get_map_alerts_state without the test for None.
get_map_alerts_state_NoNoneTest(r) ==
    Try(get_request(r), LAMBDA data :
      Try(ExceptKeyError(GetPath(data, <<K("controlCenter"), K("alertDeploymentId")>>)),
          LAMBDA alert_deployment_id :
            Ok([ret |-> FALSE, value |-> NoValue,
                url |-> ALERTS_URL(alert_deployment_id)])))

\* Lines 200-211: from the current-state response to the alerts URL, or to
\* the empty result when the deployment id is None.
get_map_alerts_state(r) ==
    Try(get_request(r), LAMBDA data :
      Try(ExceptKeyError(GetPath(data, <<K("controlCenter"), K("alertDeploymentId")>>)),
          LAMBDA alert_deployment_id :
            IF alert_deployment_id.t = "null"
            THEN Ok([ret |-> TRUE, value |-> EmptyAlert.val, url |-> API_URL])
            ELSE Ok([ret |-> FALSE, value |-> NoValue,
                     url |-> ALERTS_URL(alert_deployment_id)])))

\* Lines 224-229.
AlertOf(alert) ==
    Try(Item(alert, "content"), LAMBDA content :
      Try(ParseContent(content), LAMBDA parsed_content :
        Try(Item(alert, "bannerTitle"), LAMBDA title :
          AlertResults(parsed_content, title))))

\* Lines 212-229: from the alerts response to the result; a KeyError on the
\* path gives the empty result, any other exception propagates.
get_map_alerts_alerts(r) ==
    Try(get_request(r), LAMBDA data1 :
      LET alert == GetPath(data1, <<K("_embedded"), K("deployedAlertResourceList"),
                                    I(0), K("data"), I(0)>>)
      IN  IF ~alert.ok /\ alert.err = "KeyError" THEN EmptyAlert
          ELSE Try(alert, AlertOf))

(***************************************************************************)
(* The inputs: the arguments of the calls and the documents the server     *)
(* may answer with.                                                        *)
(***************************************************************************)
Counties == {"BUCKS", "YORK", "bucks", "ESSEX", ""}

\* A string of n characters d, with c at position pos (pos = 0: nowhere).
Phone(n, d, pos, c) == [i \in 1..n |-> IF i = pos THEN c ELSE d]

PhoneLengths == {0, PHONE_NUMBER_LENGTH - 1, PHONE_NUMBER_LENGTH, PHONE_NUMBER_LENGTH + 1}

PhoneNumbers ==
    {Phone(n, d, 0, d) : n \in PhoneLengths, d \in {"2", "5"}}
    \cup {Phone(n, "5", pos, c) : n \in PhoneLengths \ {0}, pos \in {1, PHONE_NUMBER_LENGTH - 1},
                                  c \in {"a", "-", " ", "sup2"}}

Without(obj, key) == JObj([x \in DOMAIN obj.v \ {key} |-> obj.v[x]])

With(obj, key, val) ==
    JObj([x \in DOMAIN obj.v \cup {key} |-> IF x = key THEN val ELSE obj.v[x]])

\* The current-state document.
DataParts ==
    {JObj([interval_generation_data |-> i]) : i \in {JStr("r1"), JStr("r2"), JNull}}
    \cup {EmptyObj, JNull}

ControlCenterParts ==
    {JObj([alertDeploymentId |-> d]) : d \in {JStr("d1"), JStr("d2"), JNull}}
    \cup {EmptyObj, JNull}

StateSample ==
    JObj([data |-> JObj([interval_generation_data |-> JStr("r1")]),
          controlCenter |-> JObj([alertDeploymentId |-> JStr("d1")])])

StateBodies ==
    {With(StateSample, "data", d) : d \in DataParts}
    \cup {With(StateSample, "controlCenter", c) : c \in ControlCenterParts}
    \cup {Without(StateSample, "data"), Without(StateSample, "controlCenter"),
          EmptyObj, JNull, JList(<<>>)}

\* The report document: the per-area records and the totals.
Area(name, k) ==
    JObj([name |-> JStr(name),
          cust_a |-> JObj([val |-> JInt(10 * k + 1)]),
          percent_cust_a |-> JObj([val |-> JInt(10 * k + 2)]),
          n_out |-> JInt(10 * k + 3),
          cust_s |-> JInt(10 * k + 4)])

WellFormedAreas == {Area(n, k) : n \in {"BUCKS", "bucks", "YORK"}, k \in {1, 2}}

MalformedAreas ==
    {Without(Area("BUCKS", 1), "name"),
     Without(Area("BUCKS", 1), "cust_a"),
     With(Area("BUCKS", 1), "cust_a", EmptyObj),
     Without(Area("YORK", 1), "percent_cust_a"),
     Without(Area("BUCKS", 1), "cust_s"),
     With(Area("BUCKS", 1), "cust_s", JNull),
     JNull}

SeqsUpTo(S, n) == UNION {[1..m -> S] : m \in 0..n}

AreaLists == SeqsUpTo(WellFormedAreas \cup MalformedAreas, MaxAreas)

Totals(k) == Without(Area("Total", k), "name")

TotalsParts ==
    {Totals(1), Totals(2),
     Without(Totals(1), "cust_a"),
     With(Totals(1), "percent_cust_a", EmptyObj),
     Without(Totals(1), "n_out"),
     Without(Totals(1), "cust_s"),
     With(Totals(1), "n_out", JNull),
     JNull}

Report(areas, totals) == JObj([file_data |-> JObj([areas |-> areas, totals |-> totals])])

ReportSample == Report(JList(<<Area("BUCKS", 1)>>), Totals(2))

ReportBodies ==
    {Report(JList(l), Totals(2)) : l \in AreaLists}
    \cup {Report(JList(<<>>), t) : t \in TotalsParts}
    \cup {Report(a, Totals(2)) : a \in {JNull, EmptyObj, JObj([x |-> JInt(1)])}}
    \cup {EmptyObj, JNull, JObj([file_data |-> JNull]),
          JObj([file_data |-> Without(ReportSample.v.file_data, "areas")]),
          JObj([file_data |-> Without(ReportSample.v.file_data, "totals")])}

\* The alerts document.
Alert(content, title) == JObj([content |-> content, bannerTitle |-> title])

AlertsDoc(resources) ==
    JObj([_embedded |-> JObj([deployedAlertResourceList |-> resources])])

AlertsOf(alerts) == AlertsDoc(JList(<<JObj([data |-> alerts])>>))

Contents ==
    {<<>>,
     <<"H", "i">>,
     <<"<", "p", ">", "H", "i", "<", "/", "p", ">", "<", "b", "r", " ", "/", ">", "x">>,
     <<"a", "<", "b", "r", ">", "b">>,
     <<"1", "<", "2", " ", "<", "b", ">", "x", "<", "/", "b", ">">>}

\* Alert contents made of pieces: plain text (no "<" in it), the line
\* break "<br />" and other tags.
TextPieces == {<<"H", "i">>, <<"x">>, <<"a", ">">>}

TagPieces ==
    {<<"<", "p", ">">>, <<"<", "/", "p", ">">>, <<"<", "b", "r", ">">>,
     <<"<", "a", "<", "b", ">">>}

Pieces == TextPieces \cup {BR} \cup TagPieces

PieceSeqs == SeqsUpTo(Pieces, MaxPieces)

RECURSIVE Flatten(_)
Flatten(ps) == IF ps = <<>> THEN <<>> ELSE Head(ps) \o Flatten(Tail(ps))

PieceContents == {Flatten(ps) : ps \in PieceSeqs}

AlertsSample == AlertsOf(JList(<<Alert(JText(<<"H", "i">>), JStr("Storm"))>>))

AlertsBodies ==
    {AlertsOf(JList(<<Alert(JText(c), JStr(t))>>)) : c \in Contents, t \in {"Storm", ""}}
    \cup {AlertsOf(JList(<<a>>)) :
            a \in {Without(Alert(JText(<<"H", "i">>), JStr("Storm")), "content"),
                   Without(Alert(JText(<<"H", "i">>), JStr("Storm")), "bannerTitle"),
                   Alert(JNull, JStr("Storm")),
                   Alert(JText(<<"H", "i">>), JNull),
                   JNull}}
    \cup {AlertsOf(JList(<<Alert(JText(c), JStr("Storm"))>>)) : c \in PieceContents}
    \cup {AlertsOf(JList(<<>>)), AlertsOf(JNull),
          AlertsDoc(JList(<<>>)), AlertsDoc(JList(<<EmptyObj>>)), AlertsDoc(JNull),
          AlertsDoc(EmptyObj),
          JObj([_embedded |-> EmptyObj]), JObj([_embedded |-> JNull]), EmptyObj, JNull}

\* The documents of the meter endpoints.
Meter(status, a, n) == JObj([smartMeterStatus |-> status, auid |-> a, accountNumber |-> n])

Query(success, meters) == JObj([success |-> success, data |-> meters])

QuerySample == Query(JBool(TRUE), JList(<<Meter(JBool(TRUE), JStr("u1"), JStr("n1"))>>))

QueryBodies ==
    {Query(JBool(s), JList(<<Meter(JBool(m), JStr(t[1]), JStr(t[2]))>>)) :
        s \in BOOLEAN, m \in BOOLEAN, t \in {<<"u1", "n1">>, <<"u2", "n2">>}}
    \cup {Query(JBool(s), JList(<<>>)) : s \in BOOLEAN}
    \cup {Query(JBool(TRUE), JList(<<m>>)) :
            m \in {Without(QuerySample.v.data.v[1], "smartMeterStatus"),
                   Without(QuerySample.v.data.v[1], "auid"),
                   Without(QuerySample.v.data.v[1], "accountNumber"),
                   With(QuerySample.v.data.v[1], "smartMeterStatus", JNull)}}
    \cup {Without(QuerySample, "success"), Without(QuerySample, "data"), EmptyObj, JNull}

Precheck(success, d) == JObj([success |-> success, data |-> d])

PrecheckSample == Precheck(JBool(TRUE), JObj([meterPing |-> JBool(TRUE)]))

PrecheckBodies ==
    {Precheck(JBool(s), JObj([meterPing |-> JBool(m)])) : s \in BOOLEAN, m \in BOOLEAN}
    \cup {Precheck(JBool(s), d) : s \in BOOLEAN, d \in {EmptyObj, JNull}}
    \cup {Without(PrecheckSample, "success"), Without(PrecheckSample, "data"), EmptyObj, JNull}

Ping(success, res) == JObj([success |-> success, data |-> JObj([meterInfo |-> res])])

PingSample == Ping(JBool(TRUE), JObj([pingResult |-> JBool(TRUE)]))

PingBodies ==
    {Ping(JBool(s), JObj([pingResult |-> x])) :
        s \in BOOLEAN, x \in {JBool(TRUE), JBool(FALSE), JNull, JInt(1)}}
    \cup {Ping(JBool(s), d) : s \in BOOLEAN, d \in {EmptyObj, JNull}}
    \cup {Without(PingSample, "success"), Without(PingSample, "data"), EmptyObj, JNull}

Bodies(endpoint) ==
    CASE endpoint = "API_URL" -> StateBodies
      [] endpoint = "REPORT_URL" -> ReportBodies
      [] endpoint = "ALERTS_URL" -> AlertsBodies
      [] endpoint = "QUERY_URL" -> QueryBodies
      [] endpoint = "PRECHECK_URL" -> PrecheckBodies
      [] endpoint = "PING_URL" -> PingBodies

Sample(endpoint) ==
    CASE endpoint = "API_URL" -> StateSample
      [] endpoint = "REPORT_URL" -> ReportSample
      [] endpoint = "ALERTS_URL" -> AlertsSample
      [] endpoint = "QUERY_URL" -> QuerySample
      [] endpoint = "PRECHECK_URL" -> PrecheckSample
      [] endpoint = "PING_URL" -> PingSample

\* The Content-Type the server sends with a document of the endpoint: the
\* meter endpoints send their JSON as text/html.
ServedAs(endpoint) ==
    IF endpoint \in {"QUERY_URL", "PRECHECK_URL", "PING_URL"}
    THEN "text/html" ELSE "application/json"

Statuses == {STATUS_OK, 404, 503}

ContentTypes == {"application/json", "text/html"}

Response(status, ctype, body) == [status |-> status, ctype |-> ctype, body |-> body]

\* Every document of the endpoint with status 200, and with every status
\* and Content-Type an empty body, a body that is not JSON, an error
\* document and a well-formed document of the endpoint.
Responses(endpoint) ==
    {Response(STATUS_OK, ServedAs(endpoint), JsonBody(b)) : b \in Bodies(endpoint)}
    \cup {Response(s, c, b) :
            s \in Statuses, c \in ContentTypes,
            b \in {EmptyBody, GarbageBody, JsonBody(JObj([error |-> JStr("x")])),
                   JsonBody(Sample(endpoint))}}

\* A few documents of the endpoint: two well-formed ones that differ in
\* what the operation reads from them, and for the current state one that
\* lacks its keys.
FewBodies(endpoint) ==
    CASE endpoint = "API_URL" -> {StateSample, EmptyObj}
      [] endpoint = "REPORT_URL" ->
           {ReportSample, Report(JList(<<Area("YORK", 1), Area("BUCKS", 2)>>), Totals(1))}
      [] endpoint = "ALERTS_URL" -> {AlertsSample, AlertsDoc(JList(<<>>))}
      [] endpoint = "QUERY_URL" ->
           {QuerySample,
            Query(JBool(TRUE), JList(<<Meter(JBool(TRUE), JStr("u2"), JStr("n2"))>>))}
      [] endpoint = "PRECHECK_URL" ->
           {PrecheckSample, Precheck(JBool(TRUE), JObj([meterPing |-> JBool(FALSE)]))}
      [] endpoint = "PING_URL" ->
           {PingSample, Ping(JBool(TRUE), JObj([pingResult |-> JBool(FALSE)]))}

Few(endpoint) ==
    {Response(STATUS_OK, ServedAs(endpoint), JsonBody(b)) : b \in FewBodies(endpoint)}
    \cup {Response(503, ServedAs(endpoint), JsonBody(Sample(endpoint)))}

\* What the server may answer an invocation with: every response of the
\* endpoint while one invocation is made, a few of them while two are.
Served(endpoint) == IF pc[2] = "off" THEN Responses(endpoint) ELSE Few(endpoint)

\* The arguments the caller may pass, likewise.
CountyArgs == IF pc[2] = "off" THEN Counties ELSE {"BUCKS", "YORK", "bucks"}

PhoneArgs ==
    IF pc[2] = "off" THEN PhoneNumbers
    ELSE {Phone(PHONE_NUMBER_LENGTH, "2", 0, "2"), Phone(PHONE_NUMBER_LENGTH, "5", 0, "5"),
          Phone(PHONE_NUMBER_LENGTH, "5", 1, "a")}

(***************************************************************************)
(* The state machine.                                                      *)
(***************************************************************************)
Pending == [kind |-> "none", val |-> NoValue, err |-> ""]

Returned(x) == [kind |-> "return", val |-> x, err |-> ""]

Raised(e) == [kind |-> "raise", val |-> NoValue, err |-> e]

Awaiting ==
    {"count_state", "count_report", "totals_state", "totals_report",
     "meter_query", "meter_precheck", "meter_ping", "alerts_state", "alerts_alerts"}

\* A variant of Request that passes the payload on only over a session of
\* the library's own.
Request_PayloadOnlyOwned(method, url, payload, ws) ==
    [method |-> method, url |-> url, payload |-> IF ws THEN JNull ELSE payload,
     session |-> IF ws THEN "caller" ELSE "owned"]

Request(method, url, payload, ws) ==
    [method |-> method, url |-> url, payload |-> payload,
     session |-> IF ws THEN "caller" ELSE "owned"]

\* The coroutine issues a request and suspends: with no caller's session
\* the library opens one of its own for this request (lines 41, 60).
Issue(p, ws, req, next) ==
    /\ pc' = [pc EXCEPT ![p] = next]
    /\ requests' = [requests EXCEPT ![p] = Append(@, req)]
    /\ sessionOpen' = [sessionOpen EXCEPT ![p] = IF ws THEN 0 ELSE 1]
    /\ sessionsCreated' = [sessionsCreated EXCEPT ![p] = IF ws THEN @ ELSE @ + 1]
    /\ callerSessionClosed' = callerSessionClosed
    /\ outcome' = outcome

\* A variant of Finish that returns or raises with the library's session
\* of the last request still open.
Finish_SessionLeftOpen(p, out) ==
    /\ pc' = [pc EXCEPT ![p] = "done"]
    /\ requests' = requests
    /\ sessionOpen' = sessionOpen
    /\ sessionsCreated' = sessionsCreated
    /\ callerSessionClosed' = callerSessionClosed
    /\ outcome' = [outcome EXCEPT ![p] = out]

\* The coroutine ends: the `async with` of the last request has been left,
\* which closes the library's session and leaves the caller's alone.
Finish(p, out) ==
    /\ pc' = [pc EXCEPT ![p] = "done"]
    /\ requests' = requests
    /\ sessionOpen' = [sessionOpen EXCEPT ![p] = 0]
    /\ sessionsCreated' = sessionsCreated
    /\ callerSessionClosed' = callerSessionClosed
    /\ outcome' = [outcome EXCEPT ![p] = out]

Receive(p, r) == responses' = [responses EXCEPT ![p] = Append(@, r)]

\* The state after PecoOutageApi(): nothing called yet.  Under Spec the
\* first invocation is about to be made and the second is never started.
Init ==
    /\ pc = [p \in Procs |-> IF p = 1 THEN "idle" ELSE "off"]
    /\ op = [p \in Procs |-> ""]
    /\ county = [p \in Procs |-> ""]
    /\ phone_number = [p \in Procs |-> <<>>]
    /\ websession = [p \in Procs |-> FALSE]
    /\ requests = [p \in Procs |-> <<>>]
    /\ responses = [p \in Procs |-> <<>>]
    /\ auid = [p \in Procs |-> JNull]
    /\ acc_number = [p \in Procs |-> JNull]
    /\ outcome = [p \in Procs |-> Pending]
    /\ sessionOpen = [p \in Procs |-> 0]
    /\ sessionsCreated = [p \in Procs |-> 0]
    /\ callerSessionClosed = FALSE

\* get_outage_count(county, websession), up to the first await.
Call_get_outage_count(p) ==
    /\ pc[p] = "idle"
    /\ \E c \in CountyArgs, ws \in BOOLEAN :
         /\ op' = [op EXCEPT ![p] = "get_outage_count"]
         /\ county' = [county EXCEPT ![p] = c]
         /\ websession' = [websession EXCEPT ![p] = ws]
         /\ LET v == get_outage_count_validate(c)
            IN  IF v.ok THEN Issue(p, ws, Request("GET", API_URL, JNull, ws), "count_state")
                ELSE Finish(p, Raised(v.err))
    /\ UNCHANGED <<phone_number, responses, auid, acc_number>>

\* get_outage_count resumed by the current-state response.
OutageCount_OnState(p) ==
    /\ pc[p] = "count_state"
    /\ \E r \in Served("API_URL") :
         /\ Receive(p, r)
         /\ LET res == get_outage_count_state(r)
            IN  IF res.ok
                THEN Issue(p, websession[p],
                           Request("GET", res.val, JNull, websession[p]), "count_report")
                ELSE Finish(p, Raised(res.err))
    /\ UNCHANGED <<op, county, phone_number, websession, auid, acc_number>>

\* A variant of OutageCount_OnReport with a result object that outlives the
\* call: once an invocation has returned, a later one returns the zeros.
OutageCount_OnReport_KeptResult(p) ==
    /\ pc[p] = "count_report"
    /\ \E r \in Served("REPORT_URL") :
         /\ Receive(p, r)
         /\ LET res == get_outage_count_report(r, county[p])
            IN  Finish(p, IF ~res.ok THEN Raised(res.err)
                          ELSE IF \E q \in Procs \ {p} : outcome[q].kind = "return"
                          THEN Returned(ZeroResult)
                          ELSE Returned(res.val))
    /\ UNCHANGED <<op, county, phone_number, websession, auid, acc_number>>

\* get_outage_count resumed by the report response.
OutageCount_OnReport(p) ==
    /\ pc[p] = "count_report"
    /\ \E r \in Served("REPORT_URL") :
         /\ Receive(p, r)
         /\ LET res == get_outage_count_report(r, county[p])
            IN  Finish(p, IF res.ok THEN Returned(res.val) ELSE Raised(res.err))
    /\ UNCHANGED <<op, county, phone_number, websession, auid, acc_number>>

\* get_outage_totals(websession), up to the first await.
Call_get_outage_totals(p) ==
    /\ pc[p] = "idle"
    /\ \E ws \in BOOLEAN :
         /\ op' = [op EXCEPT ![p] = "get_outage_totals"]
         /\ websession' = [websession EXCEPT ![p] = ws]
         /\ Issue(p, ws, Request("GET", API_URL, JNull, ws), "totals_state")
    /\ UNCHANGED <<county, phone_number, responses, auid, acc_number>>

OutageTotals_OnState(p) ==
    /\ pc[p] = "totals_state"
    /\ \E r \in Served("API_URL") :
         /\ Receive(p, r)
         /\ LET res == get_outage_totals_state(r)
            IN  IF res.ok
                THEN Issue(p, websession[p],
                           Request("GET", res.val, JNull, websession[p]), "totals_report")
                ELSE Finish(p, Raised(res.err))
    /\ UNCHANGED <<op, county, phone_number, websession, auid, acc_number>>

OutageTotals_OnReport(p) ==
    /\ pc[p] = "totals_report"
    /\ \E r \in Served("REPORT_URL") :
         /\ Receive(p, r)
         /\ LET res == get_outage_totals_report(r)
            IN  Finish(p, IF res.ok THEN Returned(res.val) ELSE Raised(res.err))
    /\ UNCHANGED <<op, county, phone_number, websession, auid, acc_number>>

\* meter_check(phone_number, websession), up to the first await.
Call_meter_check(p) ==
    /\ pc[p] = "idle"
    /\ \E phone \in PhoneArgs, ws \in BOOLEAN :
         /\ op' = [op EXCEPT ![p] = "meter_check"]
         /\ phone_number' = [phone_number EXCEPT ![p] = phone]
         /\ websession' = [websession EXCEPT ![p] = ws]
         /\ LET v == meter_check_validate(phone)
            IN  IF v.ok
                THEN Issue(p, ws, Request("POST", QUERY_URL, QueryPayload(phone), ws),
                           "meter_query")
                ELSE Finish(p, Raised(v.err))
    /\ UNCHANGED <<county, responses, auid, acc_number>>

MeterCheck_OnQuery(p) ==
    /\ pc[p] = "meter_query"
    /\ \E r \in Served("QUERY_URL") :
         /\ Receive(p, r)
         /\ LET res == meter_check_query(r)
            IN  IF res.ok
                THEN /\ auid' = [auid EXCEPT ![p] = res.val.auid]
                     /\ acc_number' = [acc_number EXCEPT ![p] = res.val.acc_number]
                     /\ Issue(p, websession[p],
                              Request("POST", PRECHECK_URL,
                                      PrecheckPayload(res.val.auid, res.val.acc_number,
                                                      phone_number[p]),
                                      websession[p]),
                              "meter_precheck")
                ELSE /\ UNCHANGED <<auid, acc_number>>
                     /\ Finish(p, Raised(res.err))
    /\ UNCHANGED <<op, county, phone_number, websession>>

\* A variant of MeterCheck_OnPrecheck with the tokens kept on the object the
\* invocations share: the ping carries the tokens of the other invocation
\* once that one has stored its own.
MeterCheck_OnPrecheck_SharedTokens(p) ==
    /\ pc[p] = "meter_precheck"
    /\ \E r \in Served("PRECHECK_URL") :
         /\ Receive(p, r)
         /\ LET res == meter_check_precheck(r)
                q == IF \E x \in Procs \ {p} : auid[x] # JNull
                     THEN CHOOSE x \in Procs \ {p} : auid[x] # JNull ELSE p
            IN  IF res.ok
                THEN Issue(p, websession[p],
                           Request("POST", PING_URL, PingPayload(auid[q], acc_number[q]),
                                   websession[p]),
                           "meter_ping")
                ELSE Finish(p, Raised(res.err))
    /\ UNCHANGED <<op, county, phone_number, websession, auid, acc_number>>

MeterCheck_OnPrecheck(p) ==
    /\ pc[p] = "meter_precheck"
    /\ \E r \in Served("PRECHECK_URL") :
         /\ Receive(p, r)
         /\ LET res == meter_check_precheck(r)
            IN  IF res.ok
                THEN Issue(p, websession[p],
                           Request("POST", PING_URL, PingPayload(auid[p], acc_number[p]),
                                   websession[p]),
                           "meter_ping")
                ELSE Finish(p, Raised(res.err))
    /\ UNCHANGED <<op, county, phone_number, websession, auid, acc_number>>

MeterCheck_OnPing(p) ==
    /\ pc[p] = "meter_ping"
    /\ \E r \in Served("PING_URL") :
         /\ Receive(p, r)
         /\ LET res == meter_check_ping(r)
            IN  Finish(p, IF res.ok THEN Returned(res.val) ELSE Raised(res.err))
    /\ UNCHANGED <<op, county, phone_number, websession, auid, acc_number>>

\* get_map_alerts(websession), up to the first await.
Call_get_map_alerts(p) ==
    /\ pc[p] = "idle"
    /\ \E ws \in BOOLEAN :
         /\ op' = [op EXCEPT ![p] = "get_map_alerts"]
         /\ websession' = [websession EXCEPT ![p] = ws]
         /\ Issue(p, ws, Request("GET", API_URL, JNull, ws), "alerts_state")
    /\ UNCHANGED <<county, phone_number, responses, auid, acc_number>>

MapAlerts_OnState(p) ==
    /\ pc[p] = "alerts_state"
    /\ \E r \in Served("API_URL") :
         /\ Receive(p, r)
         /\ LET res == get_map_alerts_state(r)
            IN  IF ~res.ok THEN Finish(p, Raised(res.err))
                ELSE IF res.val.ret THEN Finish(p, Returned(res.val.value))
                ELSE Issue(p, websession[p],
                           Request("GET", res.val.url, JNull, websession[p]),
                           "alerts_alerts")
    /\ UNCHANGED <<op, county, phone_number, websession, auid, acc_number>>

MapAlerts_OnAlerts(p) ==
    /\ pc[p] = "alerts_alerts"
    /\ \E r \in Served("ALERTS_URL") :
         /\ Receive(p, r)
         /\ LET res == get_map_alerts_alerts(r)
            IN  Finish(p, IF res.ok THEN Returned(res.val) ELSE Raised(res.err))
    /\ UNCHANGED <<op, county, phone_number, websession, auid, acc_number>>

\* The caller's scheduler cancels the task while it waits for a response:
\* CancelledError is raised at the await and unwinds the `async with`.
Cancel(p) ==
    /\ pc[p] \in Awaiting
    /\ Finish(p, Raised("CancelledError"))
    /\ UNCHANGED <<op, county, phone_number, websession, responses, auid, acc_number>>

Next ==
    \E p \in Procs :
      \/ Call_get_outage_count(p)
      \/ OutageCount_OnState(p)
      \/ OutageCount_OnReport(p)
      \/ Call_get_outage_totals(p)
      \/ OutageTotals_OnState(p)
      \/ OutageTotals_OnReport(p)
      \/ Call_meter_check(p)
      \/ MeterCheck_OnQuery(p)
      \/ MeterCheck_OnPrecheck(p)
      \/ MeterCheck_OnPing(p)
      \/ Call_get_map_alerts(p)
      \/ MapAlerts_OnState(p)
      \/ MapAlerts_OnAlerts(p)
      \/ Cancel(p)

Spec == Init /\ [][Next]_vars

\* Two invocations on the one PecoOutageApi object, started and resumed in
\* any order: one after the other, or the second while the first waits.
InitTwo ==
    /\ pc = [p \in Procs |-> "idle"]
    /\ op = [p \in Procs |-> ""]
    /\ county = [p \in Procs |-> ""]
    /\ phone_number = [p \in Procs |-> <<>>]
    /\ websession = [p \in Procs |-> FALSE]
    /\ requests = [p \in Procs |-> <<>>]
    /\ responses = [p \in Procs |-> <<>>]
    /\ auid = [p \in Procs |-> JNull]
    /\ acc_number = [p \in Procs |-> JNull]
    /\ outcome = [p \in Procs |-> Pending]
    /\ sessionOpen = [p \in Procs |-> 0]
    /\ sessionsCreated = [p \in Procs |-> 0]
    /\ callerSessionClosed = FALSE

SpecTwo == InitTwo /\ [][Next]_vars

(***************************************************************************)
(* The properties.                                                         *)
(***************************************************************************)
\* The response is one the transport primitive hands on to the pipeline:
\* status 200 and a JSON document under the Content-Type the primitive
\* asks for.
Delivered(r, endpoint) ==
    r.status = STATUS_OK /\ r.ctype = ServedAs(endpoint) /\ r.body.kind = "json"

\* The document at the path is the value x.
Has(doc, path, x) == GetPath(doc, path) = Ok(x)

\* A key of the path is missing from the object it is looked up in.
Absent(doc, path) == GetPath(doc, path) = Raise("KeyError")

EndpointsOf(p) == {requests[p][i].url.endpoint : i \in DOMAIN requests[p]}

SixCounties == {"BUCKS", "CHESTER", "DELAWARE", "MONTGOMERY", "PHILADELPHIA", "YORK"}

\* C1: get_outage_count with a county outside the six names raises
\* InvalidCountyError, a ValueError, and has issued no request.
C1_InvalidCounty ==
    \A p \in Procs :
      (op[p] = "get_outage_count" /\ county[p] \notin SixCounties)
        => /\ outcome[p] = Raised("InvalidCountyError")
           /\ IsInstance(outcome[p].err, "ValueError")
           /\ requests[p] = <<>>

C1_Witness ==
    \E p \in Procs :
      /\ op[p] = "get_outage_count" /\ county[p] = "bucks"
      /\ outcome[p].kind = "raise" /\ requests[p] = <<>>

C3_IncompatibleMeter ==
    \A p \in Procs :
      (op[p] = "meter_check" /\ Len(responses[p]) >= 1
         /\ Delivered(responses[p][1], "QUERY_URL")
         /\ Has(responses[p][1].body.val, <<K("success")>>, JBool(TRUE))
         /\ Has(responses[p][1].body.val,
                <<K("data"), I(0), K("smartMeterStatus")>>, JBool(FALSE)))
        => /\ outcome[p] = Raised("IncompatibleMeterError")
           /\ EndpointsOf(p) = {"QUERY_URL"}
           /\ Len(requests[p]) = 1

C3_Witness ==
    \E p \in Procs :
      /\ op[p] = "meter_check" /\ Len(responses[p]) = 1
      /\ Delivered(responses[p][1], "QUERY_URL")
      /\ Has(responses[p][1].body.val, <<K("success")>>, JBool(TRUE))
      /\ Has(responses[p][1].body.val,
             <<K("data"), I(0), K("smartMeterStatus")>>, JBool(FALSE))
      /\ pc[p] = "done" /\ outcome[p].err = "IncompatibleMeterError"

\* C4: when the precheck step of meter_check answers 200 with success true
\* and data.meterPing false, the call raises UnresponsiveMeterError and the
\* ping endpoint is never requested.
C4_UnresponsiveMeter ==
    \A p \in Procs :
      (op[p] = "meter_check" /\ Len(responses[p]) >= 2
         /\ Delivered(responses[p][2], "PRECHECK_URL")
         /\ Has(responses[p][2].body.val, <<K("success")>>, JBool(TRUE))
         /\ Has(responses[p][2].body.val, <<K("data"), K("meterPing")>>, JBool(FALSE)))
        => /\ outcome[p] = Raised("UnresponsiveMeterError")
           /\ "PING_URL" \notin EndpointsOf(p)
           /\ Len(requests[p]) = 2

C4_Witness ==
    \E p \in Procs :
      /\ op[p] = "meter_check" /\ Len(responses[p]) = 2
      /\ Delivered(responses[p][2], "PRECHECK_URL")
      /\ Has(responses[p][2].body.val, <<K("success")>>, JBool(TRUE))
      /\ Has(responses[p][2].body.val, <<K("data"), K("meterPing")>>, JBool(FALSE))
      /\ pc[p] = "done" /\ outcome[p].err = "UnresponsiveMeterError"

\* C5: in every operation, a response to step k whose status is not 200
\* makes the operation raise HttpError, with no result and with no request
\* after the k-th.
C5_NonOkStatusStops ==
    \A p \in Procs : \A k \in DOMAIN responses[p] :
      responses[p][k].status # STATUS_OK
        => /\ outcome[p] = Raised("HttpError")
           /\ Len(requests[p]) = k

\* C6: the transport primitive fails with HttpError on every response
\* whose status is not 200, whatever its body: empty, not JSON, or JSON.
C6_HttpErrorWhateverTheBody ==
    \A p \in Procs : \A k \in DOMAIN responses[p] :
      responses[p][k].status # STATUS_OK
        => (IF requests[p][k].method = "GET"
            THEN get_request(responses[p][k])
            ELSE post_request(responses[p][k])) = Raise("HttpError")

\* C7: when a step of meter_check answers 200 with success false, the call
\* raises HttpError and requests nothing more, whatever smartMeterStatus
\* or meterPing say.
C7_SuccessFalse ==
    \A p \in Procs : \A k \in DOMAIN responses[p] :
      (op[p] = "meter_check"
         /\ Delivered(responses[p][k], requests[p][k].url.endpoint)
         /\ Has(responses[p][k].body.val, <<K("success")>>, JBool(FALSE)))
        => /\ outcome[p] = Raised("HttpError")
           /\ Len(requests[p]) = k

C7_Witness ==
    \E p \in Procs :
      /\ op[p] = "meter_check" /\ Len(responses[p]) = 1
      /\ Delivered(responses[p][1], "QUERY_URL")
      /\ Has(responses[p][1].body.val, <<K("success")>>, JBool(FALSE))
      /\ Has(responses[p][1].body.val,
             <<K("data"), I(0), K("smartMeterStatus")>>, JBool(FALSE))
      /\ pc[p] = "done" /\ outcome[p].err = "HttpError"

\* An area record with all the fields of section 6, of the right types.
IsAreaRecord(a) ==
    /\ a.t = "obj"
    /\ Item(a, "name").ok /\ Item(a, "name").val.t = "str"
    /\ \A path \in {<<K("cust_a"), K("val")>>, <<K("percent_cust_a"), K("val")>>,
                    <<K("n_out")>>, <<K("cust_s")>>} :
         GetPath(a, path).ok /\ GetPath(a, path).val.t = "int"

\* The areas list of a delivered report in which every record is well formed.
AreasOf(r) == GetPath(r.body.val, <<K("file_data"), K("areas")>>)

WellFormedReport(r) ==
    /\ Delivered(r, "REPORT_URL")
    /\ AreasOf(r).ok
    /\ AreasOf(r).val.t = "list"
    /\ \A i \in DOMAIN AreasOf(r).val.v : IsAreaRecord(AreasOf(r).val.v[i])

AllZero ==
    [t |-> "OutageResults",
     v |-> [customers_out |-> 0, percent_customers_out |-> 0,
            outage_count |-> 0, customers_served |-> 0]]

\* C8: get_outage_count with a valid county and a well-formed report in
\* which no record is named like the county returns the result with all
\* four fields 0.
C8_NoMatchGivesZero ==
    \A p \in Procs :
      (op[p] = "get_outage_count" /\ Len(responses[p]) = 2
         /\ WellFormedReport(responses[p][2])
         /\ \A i \in DOMAIN AreasOf(responses[p][2]).val.v :
              ~Has(AreasOf(responses[p][2]).val.v[i], <<K("name")>>, JStr(county[p])))
        => outcome[p] = Returned(AllZero)

C8_Witness ==
    \E p \in Procs :
      /\ op[p] = "get_outage_count" /\ county[p] = "BUCKS" /\ Len(responses[p]) = 2
      /\ WellFormedReport(responses[p][2])
      /\ Len(AreasOf(responses[p][2]).val.v) = 2
      /\ Has(AreasOf(responses[p][2]).val.v[1], <<K("name")>>, JStr("bucks"))
      /\ Has(AreasOf(responses[p][2]).val.v[2], <<K("name")>>, JStr("YORK"))
      /\ outcome[p] = Returned(AllZero)

FieldPaths ==
    {<<K("cust_a"), K("val")>>, <<K("percent_cust_a"), K("val")>>,
     <<K("n_out")>>, <<K("cust_s")>>}

\* A key the extraction of the step needs is absent from the document: the
\* identifier path of the current state; file_data.areas, the name of a
\* record or a field of a record named like the county; file_data.totals or
\* a field of the totals.
RequiredKeyAbsent(o, k, doc, c) ==
    \/ /\ o \in {"get_outage_count", "get_outage_totals"} /\ k = 1
       /\ Absent(doc, <<K("data"), K("interval_generation_data")>>)
    \/ /\ o = "get_map_alerts" /\ k = 1
       /\ Absent(doc, <<K("controlCenter"), K("alertDeploymentId")>>)
    \/ /\ o = "get_outage_count" /\ k = 2
       /\ \/ Absent(doc, <<K("file_data"), K("areas")>>)
          \/ /\ GetPath(doc, <<K("file_data"), K("areas")>>).ok
             /\ GetPath(doc, <<K("file_data"), K("areas")>>).val.t = "list"
             /\ \E i \in DOMAIN GetPath(doc, <<K("file_data"), K("areas")>>).val.v :
                  LET a == GetPath(doc, <<K("file_data"), K("areas")>>).val.v[i]
                  IN  \/ Absent(a, <<K("name")>>)
                      \/ /\ Has(a, <<K("name")>>, JStr(c))
                         /\ \E path \in FieldPaths : Absent(a, path)
    \/ /\ o = "get_outage_totals" /\ k = 2
       /\ \/ Absent(doc, <<K("file_data"), K("totals")>>)
          \/ \E path \in FieldPaths :
               Absent(doc, <<K("file_data"), K("totals")>> \o path)

\* C9: in get_outage_count, get_outage_totals and the first step of
\* get_map_alerts, a delivered response in which a required key is absent
\* makes the operation fail with BadJSONError.
C9_AbsentKeyIsBadJSON ==
    \A p \in Procs : \A k \in DOMAIN responses[p] :
      (/\ Delivered(responses[p][k], requests[p][k].url.endpoint)
       /\ RequiredKeyAbsent(op[p], k, responses[p][k].body.val, county[p]))
        => outcome[p] = Raised("BadJSONError")

NoAlert ==
    [t |-> "AlertResults", v |-> [alert_content |-> <<>>, alert_title |-> ""]]

\* C11: when the delivered current-state document has
\* controlCenter.alertDeploymentId present and null, get_map_alerts returns
\* the result with an empty title and an empty content, and the
\* current-state request stays its only request.
C11_NullDeploymentId ==
    \A p \in Procs :
      (op[p] = "get_map_alerts" /\ Len(responses[p]) >= 1
         /\ Delivered(responses[p][1], "API_URL")
         /\ Has(responses[p][1].body.val,
                <<K("controlCenter"), K("alertDeploymentId")>>, JNull))
        => /\ outcome[p] = Returned(NoAlert)
           /\ EndpointsOf(p) = {"API_URL"}
           /\ Len(requests[p]) = 1

C11_Witness ==
    \E p \in Procs :
      /\ op[p] = "get_map_alerts" /\ Len(responses[p]) = 1
      /\ Delivered(responses[p][1], "API_URL")
      /\ Has(responses[p][1].body.val,
             <<K("controlCenter"), K("alertDeploymentId")>>, JNull)
      /\ pc[p] = "done" /\ outcome[p].kind = "return"

AlertPath ==
    <<K("_embedded"), K("deployedAlertResourceList"), I(0), K("data"), I(0)>>

\* C12: in get_map_alerts, a delivered alerts document in which the path
\* _embedded.deployedAlertResourceList[0].data[0] is absent (a key is
\* missing, or a list has no first element) gives the empty result.
C12_AbsentAlertIsNoAlert ==
    \A p \in Procs :
      (op[p] = "get_map_alerts" /\ Len(responses[p]) = 2
         /\ Delivered(responses[p][2], "ALERTS_URL")
         /\ ~GetPath(responses[p][2].body.val, AlertPath).ok
         /\ GetPath(responses[p][2].body.val, AlertPath).err \in {"KeyError", "IndexError"})
        => outcome[p] = Returned(NoAlert)

\* What the claim expects of a sequence of pieces: the text pieces as they
\* are, two newlines for each "<br />", nothing for any other tag.
RECURSIVE Expected(_)
Expected(ps) ==
    IF ps = <<>> THEN <<>>
    ELSE (IF Head(ps) = <<"<", "b", "r", " ", "/", ">">> THEN <<"\n", "\n">>
          ELSE IF Head(ps)[1] = "<" THEN <<>>
          ELSE Head(ps)) \o Expected(Tail(ps))

ExpectedTable == {<<Flatten(ps), Expected(ps)>> : ps \in PieceSeqs}

AlertResultOf(content, title) ==
    [t |-> "AlertResults", v |-> [alert_content |-> content, alert_title |-> title]]

\* The alert of a delivered alerts document, with a str content and title.
AlertIn(r) == GetPath(r.body.val, AlertPath)

HasAlert(r) ==
    /\ Delivered(r, "ALERTS_URL")
    /\ AlertIn(r).ok
    /\ Item(AlertIn(r).val, "content").ok
    /\ Item(AlertIn(r).val, "content").val.t = "text"
    /\ Item(AlertIn(r).val, "bannerTitle").ok
    /\ Item(AlertIn(r).val, "bannerTitle").val.t = "str"

\* C13: for an alert content that is a sequence of plain-text pieces,
\* "<br />" tags and other tags, get_map_alerts returns as alert_content
\* the text pieces in their order with two newlines for every "<br />" and
\* every other tag removed, and bannerTitle as alert_title; so
\* "<p>Hi</p><br />x" gives "Hi", two newlines, "x".
C13_TagsStripped ==
    \A p \in Procs :
      (op[p] = "get_map_alerts" /\ Len(responses[p]) = 2 /\ HasAlert(responses[p][2]))
        => LET content == Item(AlertIn(responses[p][2]).val, "content").val.v
               title == Item(AlertIn(responses[p][2]).val, "bannerTitle").val.v
           IN  /\ \A e \in ExpectedTable :
                    content = e[1] => outcome[p] = Returned(AlertResultOf(e[2], title))
               /\ content = <<"<", "p", ">", "H", "i", "<", "/", "p", ">",
                              "<", "b", "r", " ", "/", ">", "x">>
                    => outcome[p] = Returned(AlertResultOf(<<"H", "i", "\n", "\n", "x">>, title))

C13_Witness ==
    \E p \in Procs :
      /\ op[p] = "get_map_alerts" /\ Len(responses[p]) = 2 /\ HasAlert(responses[p][2])
      /\ Item(AlertIn(responses[p][2]).val, "content").val.v
           = <<"<", "p", ">", "H", "i", "<", "b", "r", " ", "/", ">">>
      /\ outcome[p] = Returned(AlertResultOf(<<"H", "i", "\n", "\n">>, "Storm"))

\* C14: without a caller's session the library opens one session per
\* request and has it open only while that request is in flight, so none is
\* open once the operation has returned or raised (HttpError, a parsing
\* error and cancellation included); with a caller's session the library
\* creates none, sends every request over the caller's, and never closes it.
C14_SessionLifecycle ==
    \A p \in Procs :
      /\ pc[p] = "done" => sessionOpen[p] = 0
      /\ (op[p] # "" /\ ~websession[p])
           => /\ sessionsCreated[p] = Len(requests[p])
              /\ sessionOpen[p] = (IF pc[p] \in Awaiting THEN 1 ELSE 0)
              /\ \A i \in DOMAIN requests[p] : requests[p][i].session = "owned"
      /\ (op[p] # "" /\ websession[p])
           => /\ sessionsCreated[p] = 0
              /\ sessionOpen[p] = 0
              /\ \A i \in DOMAIN requests[p] : requests[p][i].session = "caller"
              /\ ~callerSessionClosed

\* An operation without a caller's session is cancelled while its second
\* request is in flight.
C14_Witness ==
    \E p \in Procs :
      /\ ~websession[p] /\ pc[p] = "done"
      /\ outcome[p] = Raised("CancelledError")
      /\ sessionsCreated[p] = 2 /\ sessionOpen[p] = 0

\* The requests as the server sees them: without the session they came over.
Wire(reqs) ==
    [i \in DOMAIN reqs |->
       [method |-> reqs[i].method, url |-> reqs[i].url, payload |-> reqs[i].payload]]

SameCall(p, q) ==
    /\ op[p] # "" /\ op[p] = op[q]
    /\ county[p] = county[q] /\ phone_number[p] = phone_number[q]

Cancelled(p) == outcome[p] = Raised("CancelledError")

ToOutcome(res) == IF res.ok THEN Returned(res.val) ELSE Raised(res.err)

Alone(reqs, out) == [requests |-> reqs, outcome |-> out]

\* What get_outage_count does, on its own, with the responses rs.
CountAlone(c, ws, rs) ==
    LET v == get_outage_count_validate(c)
        r1 == Request("GET", API_URL, JNull, ws)
        s == get_outage_count_state(rs[1])
        r2 == Request("GET", s.val, JNull, ws)
    IN  IF ~v.ok THEN Alone(<<>>, Raised(v.err))
        ELSE IF Len(rs) = 0 THEN Alone(<<r1>>, Pending)
        ELSE IF ~s.ok THEN Alone(<<r1>>, Raised(s.err))
        ELSE IF Len(rs) = 1 THEN Alone(<<r1, r2>>, Pending)
        ELSE Alone(<<r1, r2>>, ToOutcome(get_outage_count_report(rs[2], c)))

TotalsAlone(ws, rs) ==
    LET r1 == Request("GET", API_URL, JNull, ws)
        s == get_outage_totals_state(rs[1])
        r2 == Request("GET", s.val, JNull, ws)
    IN  IF Len(rs) = 0 THEN Alone(<<r1>>, Pending)
        ELSE IF ~s.ok THEN Alone(<<r1>>, Raised(s.err))
        ELSE IF Len(rs) = 1 THEN Alone(<<r1, r2>>, Pending)
        ELSE Alone(<<r1, r2>>, ToOutcome(get_outage_totals_report(rs[2])))

MeterAlone(phone, ws, rs) ==
    LET v == meter_check_validate(phone)
        r1 == Request("POST", QUERY_URL, QueryPayload(phone), ws)
        s == meter_check_query(rs[1])
        r2 == Request("POST", PRECHECK_URL,
                      PrecheckPayload(s.val.auid, s.val.acc_number, phone), ws)
        c == meter_check_precheck(rs[2])
        r3 == Request("POST", PING_URL, PingPayload(s.val.auid, s.val.acc_number), ws)
    IN  IF ~v.ok THEN Alone(<<>>, Raised(v.err))
        ELSE IF Len(rs) = 0 THEN Alone(<<r1>>, Pending)
        ELSE IF ~s.ok THEN Alone(<<r1>>, Raised(s.err))
        ELSE IF Len(rs) = 1 THEN Alone(<<r1, r2>>, Pending)
        ELSE IF ~c.ok THEN Alone(<<r1, r2>>, Raised(c.err))
        ELSE IF Len(rs) = 2 THEN Alone(<<r1, r2, r3>>, Pending)
        ELSE Alone(<<r1, r2, r3>>, ToOutcome(meter_check_ping(rs[3])))

AlertsAlone(ws, rs) ==
    LET r1 == Request("GET", API_URL, JNull, ws)
        s == get_map_alerts_state(rs[1])
        r2 == Request("GET", s.val.url, JNull, ws)
    IN  IF Len(rs) = 0 THEN Alone(<<r1>>, Pending)
        ELSE IF ~s.ok THEN Alone(<<r1>>, Raised(s.err))
        ELSE IF s.val.ret THEN Alone(<<r1>>, Returned(s.val.value))
        ELSE IF Len(rs) = 1 THEN Alone(<<r1, r2>>, Pending)
        ELSE Alone(<<r1, r2>>, ToOutcome(get_map_alerts_alerts(rs[2])))

\* The requests and the outcome of invocation p had it been the only one,
\* given its arguments and the responses it has received.
RunAlone(p) ==
    CASE op[p] = "get_outage_count" -> CountAlone(county[p], websession[p], responses[p])
      [] op[p] = "get_outage_totals" -> TotalsAlone(websession[p], responses[p])
      [] op[p] = "meter_check" -> MeterAlone(phone_number[p], websession[p], responses[p])
      [] op[p] = "get_map_alerts" -> AlertsAlone(websession[p], responses[p])

\* C16: however two invocations are interleaved, the requests (payloads
\* included) and the outcome of each are those of the invocation run alone
\* on its own arguments and responses, a cancellation aside, which ends the
\* invocation where it waits.
C16_InvocationsIndependent ==
    \A p \in Procs :
      op[p] # ""
        => /\ requests[p] = RunAlone(p).requests
           /\ \/ outcome[p] = RunAlone(p).outcome
              \/ Cancelled(p) /\ RunAlone(p).outcome = Pending

\* Two meter checks meet: both have stored their tokens, different ones,
\* before either sends its ping, and both end with a value.
C16_Witness ==
    /\ op[1] = "meter_check" /\ op[2] = "meter_check"
    /\ phone_number[1] # phone_number[2]
    /\ auid[1] = JStr("u1") /\ auid[2] = JStr("u2")
    /\ Len(requests[1]) = 3 /\ Len(requests[2]) = 3
    /\ requests[1][3].payload # requests[2][3].payload
    /\ outcome[1].kind = "return" /\ outcome[2].kind = "return"

WellFormed(p) ==
    \A i \in DOMAIN responses[p] : Delivered(responses[p][i], requests[p][i].url.endpoint)

MeterOrder == <<"QUERY_URL", "PRECHECK_URL", "PING_URL">>

\* The value at the path of the k-th response's document is true (as the
\* `if not` of the code reads it), under status 200.
OkAndTrue(p, k, path) ==
    /\ Len(responses[p]) >= k
    /\ responses[p][k].status = STATUS_OK
    /\ responses[p][k].body.kind = "json"
    /\ Has(responses[p][k].body.val, <<K("success")>>, JBool(TRUE))
    /\ GetPath(responses[p][k].body.val, path).ok
    /\ Truthy(GetPath(responses[p][k].body.val, path).val)

\* C18: meter_check requests query, precheck and ping at most once each
\* and in that order; precheck only after a query response with status
\* 200, success true and smartMeterStatus true, ping only after a precheck
\* response with status 200, success true and meterPing true; it returns
\* a value only after all three requests and a ping response with status
\* 200 and success true, and the value is pingResult as a boolean.
C18_MeterCheckOrder ==
    \A p \in Procs :
      op[p] = "meter_check"
        => /\ Len(requests[p]) <= 3
           /\ \A i \in DOMAIN requests[p] : requests[p][i].url.endpoint = MeterOrder[i]
           /\ Len(requests[p]) >= 2
                => OkAndTrue(p, 1, <<K("data"), I(0), K("smartMeterStatus")>>)
           /\ Len(requests[p]) >= 3 => OkAndTrue(p, 2, <<K("data"), K("meterPing")>>)
           /\ outcome[p].kind = "return"
                => /\ Len(requests[p]) = 3 /\ Len(responses[p]) = 3
                   /\ responses[p][3].status = STATUS_OK
                   /\ responses[p][3].body.kind = "json"
                   /\ Has(responses[p][3].body.val, <<K("success")>>, JBool(TRUE))
                   /\ LET res == GetPath(responses[p][3].body.val,
                                         <<K("data"), K("meterInfo"), K("pingResult")>>)
                      IN  res.ok /\ outcome[p].val = JBool(Truthy(res.val))

\* All three steps, and a ping result that says the power is off.
C18_Witness ==
    \E p \in Procs :
      /\ op[p] = "meter_check" /\ Len(requests[p]) = 3 /\ Len(responses[p]) = 3
      /\ Has(responses[p][3].body.val,
             <<K("data"), K("meterInfo"), K("pingResult")>>, JBool(FALSE))
      /\ outcome[p] = Returned(JBool(FALSE))

TokenOf(p, key) == GetPath(responses[p][1].body.val, <<K("data"), I(0), K(key)>>).val

\* C19: the precheck payload of meter_check is {auid, accountNumber, phone}
\* and its ping payload {auid, accountNumber}, with data[0].auid and
\* data[0].accountNumber of the invocation's own query response and the
\* caller's phone_number.
C19_TokensPassedOn ==
    \A p \in Procs :
      op[p] = "meter_check"
        => /\ Len(requests[p]) >= 2
                => requests[p][2].payload
                     = JObj([auid |-> TokenOf(p, "auid"),
                             accountNumber |-> TokenOf(p, "accountNumber"),
                             phone |-> JText(phone_number[p])])
           /\ Len(requests[p]) >= 3
                => requests[p][3].payload
                     = JObj([auid |-> TokenOf(p, "auid"),
                             accountNumber |-> TokenOf(p, "accountNumber")])

C19_Witness ==
    \E p \in Procs :
      /\ op[p] = "meter_check" /\ Len(requests[p]) = 3
      /\ requests[p][2].payload.v.auid = JStr("u2")
      /\ requests[p][3].payload = JObj([auid |-> JStr("u2"), accountNumber |-> JStr("n2")])

\* The positions of the records named exactly like the county.
Matches(areas, c) == {i \in DOMAIN areas : Item(areas[i], "name").val.v = c}

Last(S) == CHOOSE i \in S : \A j \in S : j <= i

ValuesOf(a) ==
    [t |-> "OutageResults",
     v |-> [customers_out |-> GetPath(a, <<K("cust_a"), K("val")>>).val.v,
            percent_customers_out |-> GetPath(a, <<K("percent_cust_a"), K("val")>>).val.v,
            outage_count |-> Item(a, "n_out").val.v,
            customers_served |-> Item(a, "cust_s").val.v]]

\* C20: get_outage_count with a valid county and a well-formed areas list
\* holding records named exactly like the county (letter case included)
\* returns cust_a.val, percent_cust_a.val, n_out and cust_s of the last of
\* these records in list order.
C20_LastExactMatch ==
    \A p \in Procs :
      (op[p] = "get_outage_count" /\ county[p] \in SixCounties
         /\ Len(responses[p]) = 2 /\ WellFormedReport(responses[p][2])
         /\ Matches(AreasOf(responses[p][2]).val.v, county[p]) # {})
        => LET areas == AreasOf(responses[p][2]).val.v
           IN  outcome[p] = Returned(ValuesOf(areas[Last(Matches(areas, county[p]))]))

\* Two records named BUCKS: the second one is returned.
C20_Witness ==
    \E p \in Procs :
      /\ op[p] = "get_outage_count" /\ county[p] = "BUCKS"
      /\ Len(responses[p]) = 2 /\ WellFormedReport(responses[p][2])
      /\ Matches(AreasOf(responses[p][2]).val.v, "BUCKS") = {1, 2}
      /\ outcome[p].kind = "return"
      /\ outcome[p].val.v.customers_out = 21
      /\ outcome[p].val.v.customers_served = 24

=============================================================================
